---- MODULE Spec2Model ----
(***************************************************************************)
(* Model of pkg/volume/quota.go: the xfsQuotaer quota service.  It keeps a *)
(* set of allocated project ids (projectIds) in memory, a "projects" file  *)
(* of text blocks "\n<id>:<directory>:<bhard>\n" on disk, and drives the   *)
(* external xfs_quota tool.  The file is modelled as the sequence of its   *)
(* characters, so that formatting, the regular expressions and the        *)
(* substring removal are computed as the code computes them.              *)
(***************************************************************************)
EXTENDS Integers, Sequences, FiniteSets, TLC

(***************************************************************************)
(* Bounds of the model.                                                    *)
(***************************************************************************)
\* number of goroutines calling the quota service concurrently
NumProcs == 2
\* total number of public calls made by the callers
MaxCalls == 3
\* total number of injected failures: file operations, xfs_quota, crashes
MaxFaults == 2

Procs == 1..NumProcs
\* the project ids in use: one for each call that can be made, so that
\* generateId always has a free one
Ids == 1..MaxCalls

\* strconv.ParseUint(s, 10, 16) accepts values up to this one
MaxUint16 == 65535

\* longest directory name tried when a block is built and parsed back
MaxDirLen == 3

(***************************************************************************)
(* Strings are sequences of one-character strings.                         *)
(***************************************************************************)
NL == "\n"
DigitChars == <<"0", "1", "2", "3", "4", "5", "6", "7", "8", "9">>
Digits == {DigitChars[i] : i \in 1..10}

\* the directories and hard limits the callers pass in
Dirs == {<<"/", "a">>, <<"/", "b">>}
Limits == {<<"5">>}

RECURSIVE FormatUint(_)
\* strconv.FormatUint(n, 10)
FormatUint(n) ==
    IF n < 10 THEN <<DigitChars[n + 1]>>
    ELSE FormatUint(n \div 10) \o <<DigitChars[(n % 10) + 1]>>

DigitValue(c) == CHOOSE i \in 0..9 : DigitChars[i + 1] = c

RECURSIVE ParseDigits(_)
ParseDigits(s) ==
    IF s = <<>> THEN 0
    ELSE 10 * ParseDigits(SubSeq(s, 1, Len(s) - 1)) + DigitValue(s[Len(s)])

\* strconv.ParseUint(s, 10, 16) on a string of digits: the value and whether
\* it is in range; out of range the maximum value is returned with an error
ParseUint(s) ==
    LET v == ParseDigits(s)
    IN  IF v > MaxUint16 THEN [val |-> MaxUint16, ok |-> FALSE]
        ELSE [val |-> v, ok |-> TRUE]

\* the block AddProject builds for a project
Block(id, directory, bhard) ==
    <<NL>> \o FormatUint(id) \o <<":">> \o directory \o <<":">> \o bhard \o <<NL>>

\* whether t occurs in s at position i
OccursAt(s, t, i) ==
    /\ i + Len(t) - 1 <= Len(s)
    /\ SubSeq(s, i, i + Len(t) - 1) = t

Contains(s, t) == \E i \in 1..Len(s) : OccursAt(s, t, i)

RECURSIVE Replace(_, _)
\* strings.Replace(s, old, "", -1) for a non-empty old: every occurrence of
\* old, found left to right without overlap, is deleted
Replace(s, old) ==
    IF Len(s) < Len(old) THEN s
    ELSE IF OccursAt(s, old, 1)
         THEN Replace(SubSeq(s, Len(old) + 1, Len(s)), old)
         ELSE <<s[1]>> \o Replace(Tail(s), old)

\* the length of the longest prefix of s made of digits
RECURSIVE DigitPrefix(_)
DigitPrefix(s) ==
    IF s # <<>> /\ s[1] \in Digits THEN 1 + DigitPrefix(Tail(s)) ELSE 0

\* the position of the first newline of s at or after i, or 0
RECURSIVE NextNL(_, _)
NextNL(s, i) ==
    IF i > Len(s) THEN 0
    ELSE IF s[i] = NL THEN i
    ELSE NextNL(s, i + 1)

(***************************************************************************)
(* The record pattern of restoreQuotas, "(?m:\n^([0-9]+):(.+):(.+)$\n)".   *)
(* "." does not match a newline, so a match is a newline, one whole line   *)
(* of the form digits ":" group2 ":" group3, and the newline ending it;    *)
(* the greedy group2 takes everything up to the last colon that leaves a   *)
(* non-empty group3.                                                       *)
(***************************************************************************)
RecordSplits(line) ==
    LET k == DigitPrefix(line)
    IN  IF k = 0 \/ k + 1 > Len(line) \/ line[k + 1] # ":" THEN {}
        ELSE {p \in (k + 3)..(Len(line) - 1) : line[p] = ":"}

MatchRecord(line) == RecordSplits(line) # {}

Max(S) == CHOOSE x \in S : \A y \in S : y <= x

\* RecordFields with a slip: group2 is not greedy and stops at the first colon
\* that leaves a non-empty group3
RecordFields_FirstColon(line) ==
    LET k == DigitPrefix(line)
        p == CHOOSE x \in RecordSplits(line) : \A y \in RecordSplits(line) : x <= y
    IN  [digits |-> SubSeq(line, 1, k),
         directory |-> SubSeq(line, k + 2, p - 1),
         bhard |-> SubSeq(line, p + 1, Len(line))]

\* the submatches of a line the record pattern matches
RecordFields(line) ==
    LET k == DigitPrefix(line)
        p == Max(RecordSplits(line))
    IN  [digits |-> SubSeq(line, 1, k),
         directory |-> SubSeq(line, k + 2, p - 1),
         bhard |-> SubSeq(line, p + 1, Len(line))]

RECURSIVE FindAllRecords(_, _)
\* re.FindAllSubmatch(read, -1) for the record pattern, searching from
\* position i: the successive leftmost matches, none overlapping another
FindAllRecords(s, i) ==
    IF i > Len(s) THEN <<>>
    ELSE LET j == NextNL(s, i + 1)
             line == SubSeq(s, i + 1, j - 1)
         IN  IF s[i] = NL /\ j # 0 /\ MatchRecord(line)
             THEN <<[whole |-> SubSeq(s, i, j)] @@ RecordFields(line)>>
                      \o FindAllRecords(s, j + 1)
             ELSE FindAllRecords(s, i + 1)

(***************************************************************************)
(* The id pattern of newXfsQuotaer, "(?m:^([0-9]+):/.+$)": a whole line    *)
(* digits ":/" followed by at least one more character.                    *)
(***************************************************************************)
MatchIdLine(line) ==
    LET k == DigitPrefix(line)
    IN  /\ k > 0
        /\ Len(line) >= k + 3
        /\ line[k + 1] = ":"
        /\ line[k + 2] = "/"

RECURSIVE FindAllIds(_, _)
\* the digit submatches of the id pattern over the lines of s from i on
FindAllIds(s, i) ==
    IF i > Len(s) THEN {}
    ELSE LET j == NextNL(s, i)
             e == IF j = 0 THEN Len(s) ELSE j - 1
             line == SubSeq(s, i, e)
             rest == IF j = 0 THEN {} ELSE FindAllIds(s, j + 1)
         IN  IF MatchIdLine(line)
             THEN {SubSeq(line, 1, DigitPrefix(line))} \cup rest
             ELSE rest

\* getExistingIds(projectsFile, re): the ids of the matching lines, those
\* that do not fit 16 bits left out
getExistingIds(text) ==
    {ParseUint(d).val : d \in {x \in FindAllIds(text, 1) : ParseUint(x).ok}}

\* the ids of the records of a file
FileIds(text) ==
    LET ms == FindAllRecords(text, 1)
    IN  {ParseUint(ms[i].digits).val : i \in 1..Len(ms)}

(***************************************************************************)
(* The state.                                                              *)
(***************************************************************************)
VARIABLES
    haveFile,   \* whether the projects file exists on disk
    file,       \* the content of the projects file
    exists,     \* the directories that exist on the host
    quota,      \* the live filesystem: proj[d] the project a directory is
                \* associated with (0: none), lim[i] the hard limit of project
                \* i (<<>>: none)
    svc,        \* "down": no process; "new": newXfsQuotaer has built the
                \* object and restoreQuotas is about to read the file;
                \* "restoring": in the loop of restoreQuotas; "running":
                \* newXfsQuotaer has returned the instance
    startup,    \* the last newXfsQuotaer: logged, whether it logged an error
                \* of getExistingIds; err, whether it returned an error
    ids,        \* xfsQuotaer.projectIds
    matches,    \* restoreQuotas: the matches of the record pattern
    restored,   \* restoreQuotas: what was done with each match so far
    pc,         \* where each calling goroutine is
    arg,        \* the parameters and locals of each goroutine's call
    ret,        \* what each goroutine's last call returned
    cmds,       \* the xfs_quota commands each goroutine has run in its
                \* current or last call; cmds[0] are those of restoreQuotas
    pre,        \* the file and projectIds when a goroutine's AddProject began
    dirty,      \* whether another goroutine has changed them since
    issued,     \* the (block, id) pairs AddProject has returned to callers
                \* that have not been passed to RemoveProject yet
    calls,      \* the number of public calls made
    faults,     \* the number of failures injected
    mapMutex,   \* xfsQuotaer.mapMutex: the goroutine that holds it, or 0
    fileMutex   \* xfsQuotaer.fileMutex: the goroutine that holds it, or 0

vars == <<haveFile, file, exists, quota, svc, startup, ids, matches, restored,
          pc, arg, ret, cmds, pre, dirty, issued, calls, faults,
          mapMutex, fileMutex>>

disk == <<haveFile, file>>
restore == <<matches, restored>>
budget == <<calls, faults>>
locks == <<mapMutex, fileMutex>>

NoArg == [directory |-> <<>>, bhard |-> <<>>, id |-> 0, block |-> <<>>, note |-> ""]
NoRet == [op |-> "none", err |-> "nil", block |-> <<>>, id |-> 0, note |-> ""]
NoPre == [file |-> <<>>, ids |-> {}]
NoStartup == [logged |-> FALSE, err |-> FALSE]

\* the program has never run: no projects file, every directory in place
Init ==
    /\ haveFile = FALSE
    /\ file = <<>>
    /\ exists = Dirs
    /\ quota = [proj |-> [d \in Dirs |-> 0], lim |-> [i \in Ids |-> <<>>]]
    /\ svc = "down"
    /\ startup = NoStartup
    /\ ids = {}
    /\ matches = <<>>
    /\ restored = <<>>
    /\ pc = [p \in Procs |-> "idle"]
    /\ arg = [p \in Procs |-> NoArg]
    /\ ret = [p \in Procs |-> NoRet]
    /\ cmds = [p \in 0..NumProcs |-> <<>>]
    /\ pre = [p \in Procs |-> NoPre]
    /\ dirty = [p \in Procs |-> FALSE]
    /\ issued = {}
    /\ calls = 0
    /\ faults = 0
    /\ mapMutex = 0
    /\ fileMutex = 0

\* a failure of the environment is injected
Fault == faults < MaxFaults /\ faults' = faults + 1
NoFault == faults' = faults

\* goroutine p changes the file or projectIds under the others' feet
Dirty(p) == [q \in Procs |-> q # p \/ dirty[q]]

\* the callers are interchangeable: a new call is made by the first goroutine
\* that has none in progress
Idle(p) ==
    /\ svc = "running"
    /\ pc[p] = "idle"
    /\ \A q \in Procs : q < p => pc[q] # "idle"

\* the file and projectIds before goroutine p's last AddProject are no longer
\* of interest
Forget(p) ==
    /\ pre' = [pre EXCEPT ![p] = NoPre]
    /\ dirty' = [dirty EXCEPT ![p] = FALSE]

\* the call of goroutine p returns r
Return(p, r) ==
    /\ pc' = [pc EXCEPT ![p] = "idle"]
    /\ arg' = [arg EXCEPT ![p] = NoArg]
    /\ ret' = [ret EXCEPT ![p] = r]

Goto(p, l) == pc' = [pc EXCEPT ![p] = l]

(***************************************************************************)
(* The commands of the xfs_quota tool.                                     *)
(***************************************************************************)
ProjectCmd(directory, id) == [op |-> "project", id |-> id, a |-> directory]
LimitCmd(bhard, id) == [op |-> "limit", id |-> id, a |-> bhard]

\* the live filesystem after a command has succeeded
Apply(q, c) ==
    IF c.op = "project" THEN [q EXCEPT !.proj[c.a] = c.id]
    ELSE [q EXCEPT !.lim[c.id] = c.a]

(***************************************************************************)
(* The helpers of the allocator and of the store.                          *)
(***************************************************************************)
\* Each helper locks its mutex, reads and writes what the mutex guards and
\* unlocks; no helper is called with a mutex held.  A helper is therefore one
\* step of the goroutine that calls it.

\* generateId(mutex, ids): an id that is not in the map is put in the map and
\* returned; these are the ids it may return
generateId(m) == Ids \ m

\* deleteId(mutex, ids, id)
deleteId(m, id) == m \ {id}

\* addToFile(mutex, path, toAdd)
addToFile(text, toAdd) == text \o toAdd

\* removeFromFile(mutex, path, toRemove)
removeFromFile(text, toRemove) == Replace(text, toRemove)

(***************************************************************************)
(* Construction: newXfsQuotaer and restoreQuotas.  The checks of the path, *)
(* of the mount options and of the xfs_quota binary come first and are     *)
(* taken to have passed.  No other goroutine has the object before         *)
(* newXfsQuotaer returns it.                                               *)
(***************************************************************************)
newXfsQuotaer ==
    /\ svc = "down"
    /\ \/ \* no projects file: it is created
          /\ ~haveFile /\ NoFault
          /\ haveFile' = TRUE /\ file' = <<>> /\ ids' = {}
          /\ svc' = "new" /\ startup' = NoStartup
       \/ \* os.Create fails
          /\ ~haveFile /\ Fault
          /\ UNCHANGED disk /\ ids' = {}
          /\ svc' = "down" /\ startup' = [logged |-> FALSE, err |-> TRUE]
       \/ \* the ids of the file are put in projectIds
          /\ haveFile /\ NoFault
          /\ UNCHANGED disk /\ ids' = getExistingIds(file)
          /\ svc' = "new" /\ startup' = NoStartup
       \/ \* getExistingIds fails to read the file: the error is only logged
          /\ haveFile /\ Fault
          /\ UNCHANGED disk /\ ids' = {}
          /\ svc' = "new" /\ startup' = [logged |-> TRUE, err |-> FALSE]
    /\ matches' = <<>> /\ restored' = <<>>
    /\ cmds' = [cmds EXCEPT ![0] = <<>>]
    /\ UNCHANGED <<exists, quota, pc, arg, ret, pre, dirty, issued, calls>>
    /\ UNCHANGED locks

\* newXfsQuotaer returns nil and the error of restoreQuotas
Abort ==
    /\ svc' = "down"
    /\ startup' = [startup EXCEPT !.err = TRUE]

\* restoreQuotas: ioutil.ReadFile and re.FindAllSubmatch
restoreQuotas_Read ==
    /\ svc = "new"
    /\ \/ /\ NoFault
          /\ matches' = FindAllRecords(file, 1)
          /\ svc' = "restoring" /\ UNCHANGED startup
       \/ /\ Fault
          /\ UNCHANGED matches
          /\ Abort
    /\ UNCHANGED <<disk, exists, quota, ids, restored, pc, arg, ret, cmds,
                   pre, dirty, issued, calls>>
    /\ UNCHANGED locks

\* the match the loop of restoreQuotas is at
Current == matches[Len(restored) + 1]
ProjectIdOf(m) == ParseUint(m.digits).val

\* restoreQuotas_Stale with a slip: the block is removed from the file and the
\* id is left in projectIds
restoreQuotas_Stale_KeepsId ==
    /\ svc = "restoring"
    /\ Len(restored) < Len(matches)
    /\ Current.directory \notin exists
    /\ UNCHANGED ids
    /\ \/ /\ NoFault
          /\ file' = removeFromFile(file, Current.whole)
          /\ restored' = Append(restored, "stale")
       \/ /\ Fault
          /\ UNCHANGED file
          /\ restored' = Append(restored, "stale, not removed")
    /\ UNCHANGED <<haveFile, exists, quota, svc, startup, matches, pc, arg,
                   ret, cmds, pre, dirty, issued, calls>>
    /\ UNCHANGED locks

\* restoreQuotas, a match whose directory does not exist:
\* q.RemoveProject(match[0], projectId), its error dropped
restoreQuotas_Stale ==
    /\ svc = "restoring"
    /\ Len(restored) < Len(matches)
    /\ Current.directory \notin exists
    /\ ids' = deleteId(ids, ProjectIdOf(Current))
    /\ \/ /\ NoFault
          /\ file' = removeFromFile(file, Current.whole)
          /\ restored' = Append(restored, "stale")
       \/ /\ Fault
          /\ UNCHANGED file
          /\ restored' = Append(restored, "stale, not removed")
    /\ UNCHANGED <<haveFile, exists, quota, svc, startup, matches, pc, arg,
                   ret, cmds, pre, dirty, issued, calls>>
    /\ UNCHANGED locks

\* restoreQuotas_SetQuota with a slip: a failed limit command is passed over
\* and the loop goes on
restoreQuotas_SetQuota_GoesOn ==
    /\ svc = "restoring"
    /\ Len(restored) < Len(matches)
    /\ Current.directory \in exists
    /\ LET projectId == ProjectIdOf(Current)
           cmd == LimitCmd(Current.bhard, projectId)
       IN  \/ /\ projectId \notin ids
              /\ NoFault
              /\ restored' = Append(restored, "state error")
              /\ Abort
              /\ UNCHANGED <<quota, cmds>>
           \/ /\ projectId \in ids
              /\ NoFault
              /\ cmds' = [cmds EXCEPT ![0] = Append(@, cmd)]
              /\ quota' = Apply(quota, cmd)
              /\ restored' = Append(restored, "limit")
              /\ UNCHANGED <<svc, startup>>
           \/ /\ projectId \in ids
              /\ Fault
              /\ cmds' = [cmds EXCEPT ![0] = Append(@, cmd)]
              /\ restored' = Append(restored, "limit failed")
              /\ UNCHANGED <<svc, startup, quota>>
    /\ UNCHANGED <<disk, exists, ids, matches, pc, arg, ret, pre, dirty,
                   issued, calls>>
    /\ UNCHANGED locks

\* restoreQuotas, a match whose directory exists:
\* q.SetQuota(projectId, directory, bhard), its error returned
restoreQuotas_SetQuota ==
    /\ svc = "restoring"
    /\ Len(restored) < Len(matches)
    /\ Current.directory \in exists
    /\ LET projectId == ProjectIdOf(Current)
           cmd == LimitCmd(Current.bhard, projectId)
       IN  \/ /\ projectId \notin ids
              /\ NoFault
              /\ restored' = Append(restored, "state error")
              /\ Abort
              /\ UNCHANGED <<quota, cmds>>
           \/ /\ projectId \in ids
              /\ NoFault
              /\ cmds' = [cmds EXCEPT ![0] = Append(@, cmd)]
              /\ quota' = Apply(quota, cmd)
              /\ restored' = Append(restored, "limit")
              /\ UNCHANGED <<svc, startup>>
           \/ /\ projectId \in ids
              /\ Fault
              /\ cmds' = [cmds EXCEPT ![0] = Append(@, cmd)]
              /\ restored' = Append(restored, "limit failed")
              /\ Abort
              /\ UNCHANGED quota
    /\ UNCHANGED <<disk, exists, ids, matches, pc, arg, ret, pre, dirty,
                   issued, calls>>
    /\ UNCHANGED locks

\* restoreQuotas returns nil after the last match and newXfsQuotaer returns
\* the instance
restoreQuotas_Return ==
    /\ svc = "restoring"
    /\ Len(restored) = Len(matches)
    /\ svc' = "running"
    /\ UNCHANGED <<disk, exists, quota, startup, ids, restore, pc, arg, ret,
                   cmds, pre, dirty, issued, budget>>
    /\ UNCHANGED locks

(***************************************************************************)
(* AddProject.                                                             *)
(***************************************************************************)
\* A call's entry touches nothing the other goroutines see, so it is one step
\* with the first thing the call does.

\* a caller calls q.AddProject(directory, bhard):
\* projectId := generateId(q.mapMutex, q.projectIds), and the block is built
AddProject(p, directory, bhard) ==
    /\ Idle(p)
    /\ calls < MaxCalls
    /\ calls' = calls + 1
    /\ \E projectId \in generateId(ids) :
           /\ ids' = ids \cup {projectId}
           /\ arg' = [arg EXCEPT ![p] =
                         [NoArg EXCEPT !.directory = directory, !.bhard = bhard,
                                       !.id = projectId,
                                       !.block = Block(projectId, directory, bhard)]]
    /\ Goto(p, "add_addToFile")
    /\ ret' = [ret EXCEPT ![p] = NoRet]
    /\ cmds' = [cmds EXCEPT ![p] = <<>>]
    /\ pre' = [pre EXCEPT ![p] = [file |-> file, ids |-> ids]]
    /\ dirty' = [q \in Procs |-> q # p]
    /\ UNCHANGED <<disk, exists, quota, svc, startup, restore, issued, faults>>
    /\ UNCHANGED locks

\* AddProject_addToFile with a slip: the error of addToFile is not looked at
\* and the call goes on to xfs_quota
AddProject_addToFile_GoesOn(p) ==
    /\ pc[p] = "add_addToFile"
    /\ \/ /\ NoFault
          /\ file' = addToFile(file, arg[p].block)
          /\ dirty' = Dirty(p)
       \/ /\ Fault
          /\ UNCHANGED <<file, dirty>>
    /\ Goto(p, "add_exec")
    /\ UNCHANGED <<haveFile, exists, quota, svc, startup, ids, restore,
                   arg, ret, cmds, pre, issued, calls>>
    /\ UNCHANGED locks

\* addToFile(q.fileMutex, q.projectsFile, block)
AddProject_addToFile(p) ==
    /\ pc[p] = "add_addToFile"
    /\ \/ /\ NoFault
          /\ file' = addToFile(file, arg[p].block)
          /\ dirty' = Dirty(p)
          /\ Goto(p, "add_exec")
       \/ /\ Fault
          /\ UNCHANGED <<file, dirty>>
          /\ Goto(p, "add_deleteId")
    /\ UNCHANGED <<haveFile, exists, quota, svc, startup, ids, restore,
                   arg, ret, cmds, pre, issued, calls>>
    /\ UNCHANGED locks

\* addToFile failed: deleteId and the error is returned
AddProject_deleteId(p) ==
    /\ pc[p] = "add_deleteId"
    /\ ids' = deleteId(ids, arg[p].id)
    /\ dirty' = Dirty(p)
    /\ Return(p, [NoRet EXCEPT !.op = "AddProject", !.err = "persistence"])
    /\ UNCHANGED <<disk, exists, quota, svc, startup, restore, cmds, pre,
                   issued, budget>>
    /\ UNCHANGED locks

\* AddProject_exec with a slip: deleteId is called before the error of
\* xfs_quota is looked at, so on success too
AddProject_exec_Releases(p) ==
    /\ pc[p] = "add_exec"
    /\ LET cmd == ProjectCmd(arg[p].directory, arg[p].id)
       IN  /\ cmds' = [cmds EXCEPT ![p] = Append(@, cmd)]
           /\ ids' = deleteId(ids, arg[p].id)
           /\ \/ /\ NoFault
                 /\ quota' = Apply(quota, cmd)
                 /\ issued' = issued \cup {[block |-> arg[p].block, id |-> arg[p].id]}
                 /\ Return(p, [NoRet EXCEPT !.op = "AddProject",
                                            !.block = arg[p].block,
                                            !.id = arg[p].id])
              \/ /\ Fault
                 /\ UNCHANGED <<quota, issued, arg, ret>>
                 /\ Goto(p, "add_undo_deleteId")
    /\ dirty' = Dirty(p)
    /\ UNCHANGED <<disk, exists, svc, startup, restore, pre, calls>>
    /\ UNCHANGED locks

\* xfs_quota -x -c "project -s -p <directory> <id>" is run; on success the
\* block and the id are returned
AddProject_exec(p) ==
    /\ pc[p] = "add_exec"
    /\ LET cmd == ProjectCmd(arg[p].directory, arg[p].id)
       IN  /\ cmds' = [cmds EXCEPT ![p] = Append(@, cmd)]
           /\ \/ /\ NoFault
                 /\ quota' = Apply(quota, cmd)
                 /\ issued' = issued \cup {[block |-> arg[p].block, id |-> arg[p].id]}
                 /\ Return(p, [NoRet EXCEPT !.op = "AddProject",
                                            !.block = arg[p].block,
                                            !.id = arg[p].id])
              \/ /\ Fault
                 /\ UNCHANGED <<quota, issued, arg, ret>>
                 /\ Goto(p, "add_undo_deleteId")
    /\ UNCHANGED <<disk, exists, svc, startup, ids, restore, pre, dirty,
                   calls>>
    /\ UNCHANGED locks

\* xfs_quota failed: deleteId
AddProject_undo_deleteId(p) ==
    /\ pc[p] = "add_undo_deleteId"
    /\ ids' = deleteId(ids, arg[p].id)
    /\ dirty' = Dirty(p)
    /\ Goto(p, "add_undo_removeFromFile")
    /\ UNCHANGED <<disk, exists, quota, svc, startup, restore, arg, ret,
                   cmds, pre, issued, budget>>
    /\ UNCHANGED locks

\* then removeFromFile, its error dropped, and the error of xfs_quota is
\* returned
AddProject_undo_removeFromFile(p) ==
    /\ pc[p] = "add_undo_removeFromFile"
    /\ \/ /\ NoFault
          /\ file' = removeFromFile(file, arg[p].block)
          /\ dirty' = Dirty(p)
       \/ /\ Fault
          /\ UNCHANGED <<file, dirty>>
    /\ Return(p, [NoRet EXCEPT !.op = "AddProject", !.err = "enforcement"])
    /\ UNCHANGED <<haveFile, exists, quota, svc, startup, ids, restore,
                   cmds, pre, issued, calls>>
    /\ UNCHANGED locks

(***************************************************************************)
(* RemoveProject.                                                          *)
(***************************************************************************)
\* a caller calls q.RemoveProject(block, projectId) with a pair AddProject
\* returned: deleteId(q.mapMutex, q.projectIds, projectId)
RemoveProject(p, tok) ==
    /\ Idle(p)
    /\ calls < MaxCalls
    /\ tok \in issued
    /\ issued' = issued \ {tok}
    /\ calls' = calls + 1
    /\ ids' = deleteId(ids, tok.id)
    /\ Goto(p, "rm_removeFromFile")
    /\ LET follows == /\ ret[p].op = "AddProject" /\ ret[p].err = "nil"
                      /\ ret[p].block = tok.block /\ ret[p].id = tok.id
       IN  /\ arg' = [arg EXCEPT ![p] =
                         [NoArg EXCEPT !.block = tok.block, !.id = tok.id,
                                       !.note = IF follows THEN "follows" ELSE ""]]
           /\ pre' = [pre EXCEPT ![p] = IF follows THEN @ ELSE NoPre]
           /\ dirty' = [q \in Procs |-> IF q = p THEN follows /\ dirty[p] ELSE TRUE]
    /\ ret' = [ret EXCEPT ![p] = NoRet]
    /\ cmds' = [cmds EXCEPT ![p] = <<>>]
    /\ UNCHANGED <<disk, exists, quota, svc, startup, restore, faults>>
    /\ UNCHANGED locks

\* RemoveProject with a slip: the error of removeFromFile is dropped
RemoveProject_removeFromFile_Swallows(p) ==
    /\ pc[p] = "rm_removeFromFile"
    /\ \/ /\ NoFault
          /\ file' = removeFromFile(file, arg[p].block)
          /\ dirty' = Dirty(p)
       \/ /\ Fault
          /\ UNCHANGED <<file, dirty>>
    /\ Return(p, [NoRet EXCEPT !.op = "RemoveProject", !.block = arg[p].block,
                               !.id = arg[p].id, !.note = arg[p].note])
    /\ UNCHANGED <<haveFile, exists, quota, svc, startup, ids, restore,
                   cmds, pre, issued, calls>>
    /\ UNCHANGED locks

\* return removeFromFile(q.fileMutex, q.projectsFile, block)
RemoveProject_removeFromFile(p) ==
    /\ pc[p] = "rm_removeFromFile"
    /\ \/ /\ NoFault
          /\ file' = removeFromFile(file, arg[p].block)
          /\ dirty' = Dirty(p)
          /\ Return(p, [NoRet EXCEPT !.op = "RemoveProject", !.block = arg[p].block,
                                     !.id = arg[p].id, !.note = arg[p].note])
       \/ /\ Fault
          /\ UNCHANGED <<file, dirty>>
          /\ Return(p, [NoRet EXCEPT !.op = "RemoveProject", !.err = "persistence",
                                     !.block = arg[p].block, !.id = arg[p].id,
                                     !.note = arg[p].note])
    /\ UNCHANGED <<haveFile, exists, quota, svc, startup, ids, restore,
                   cmds, pre, issued, calls>>
    /\ UNCHANGED locks

(***************************************************************************)
(* SetQuota and UnsetQuota.                                                *)
(***************************************************************************)
\* SetQuota with a slip: projectIds is not looked at
SetQuota_Unchecked(p, projectId, directory, bhard) ==
    /\ Idle(p)
    /\ calls < MaxCalls
    /\ calls' = calls + 1
    /\ directory \in Dirs
    /\ Goto(p, "set_exec")
    /\ arg' = [arg EXCEPT ![p] =
                  [NoArg EXCEPT !.id = projectId, !.bhard = bhard,
                      !.note = IF projectId \in ids THEN "allocated"
                               ELSE "unallocated"]]
    /\ ret' = [ret EXCEPT ![p] = NoRet]
    /\ cmds' = [cmds EXCEPT ![p] = <<>>]
    /\ Forget(p)
    /\ UNCHANGED <<disk, exists, quota, svc, startup, ids, restore, issued, faults>>
    /\ UNCHANGED locks

\* a caller calls q.SetQuota(projectId, directory, bhard), which makes no use
\* of the directory: if !q.projectIds[projectId] { return error }.  The map is
\* read without mapMutex; a read that races with a write of another goroutine
\* sees the map before or after that write, which is this step taken before
\* or after the other goroutine's.
SetQuota(p, projectId, directory, bhard) ==
    /\ Idle(p)
    /\ calls < MaxCalls
    /\ calls' = calls + 1
    /\ directory \in Dirs
    /\ LET note == IF projectId \in ids THEN "allocated" ELSE "unallocated"
       IN  IF projectId \in ids
           THEN /\ Goto(p, "set_exec")
                /\ arg' = [arg EXCEPT ![p] = [NoArg EXCEPT !.id = projectId,
                                                          !.bhard = bhard,
                                                          !.note = note]]
                /\ ret' = [ret EXCEPT ![p] = NoRet]
           ELSE Return(p, [NoRet EXCEPT !.op = "SetQuota", !.err = "state",
                                        !.id = projectId, !.note = note])
    /\ cmds' = [cmds EXCEPT ![p] = <<>>]
    /\ Forget(p)
    /\ UNCHANGED <<disk, exists, quota, svc, startup, ids, restore, issued, faults>>
    /\ UNCHANGED locks

\* xfs_quota -x -c "limit -p bhard=<bhard> <id>" is run
SetQuota_exec(p) ==
    /\ pc[p] = "set_exec"
    /\ LET cmd == LimitCmd(arg[p].bhard, arg[p].id)
       IN  /\ cmds' = [cmds EXCEPT ![p] = Append(@, cmd)]
           /\ \/ /\ NoFault
                 /\ quota' = Apply(quota, cmd)
                 /\ Return(p, [NoRet EXCEPT !.op = "SetQuota", !.id = arg[p].id,
                                            !.note = arg[p].note])
              \/ /\ Fault
                 /\ UNCHANGED quota
                 /\ Return(p, [NoRet EXCEPT !.op = "SetQuota", !.err = "enforcement",
                                            !.id = arg[p].id, !.note = arg[p].note])
    /\ UNCHANGED <<disk, exists, svc, startup, ids, restore, pre, dirty,
                   issued, calls>>
    /\ UNCHANGED locks

\* UnsetQuota with a slip: the limits of the projects are cleared
UnsetQuota_Clears(p) ==
    /\ Idle(p)
    /\ calls < MaxCalls
    /\ calls' = calls + 1
    /\ cmds' = [cmds EXCEPT ![p] = <<>>]
    /\ quota' = [quota EXCEPT !.lim = [i \in Ids |-> <<>>]]
    /\ Return(p, [NoRet EXCEPT !.op = "UnsetQuota"])
    /\ Forget(p)
    /\ UNCHANGED <<disk, exists, svc, startup, ids, restore, issued, faults>>
    /\ UNCHANGED locks

\* q.UnsetQuota() returns nil
UnsetQuota(p) ==
    /\ Idle(p)
    /\ calls < MaxCalls
    /\ calls' = calls + 1
    /\ cmds' = [cmds EXCEPT ![p] = <<>>]
    /\ Return(p, [NoRet EXCEPT !.op = "UnsetQuota"])
    /\ Forget(p)
    /\ UNCHANGED <<disk, exists, quota, svc, startup, ids, restore, issued,
                   faults>>
    /\ UNCHANGED locks

(***************************************************************************)
(* dummyQuotaer, the quotaer of a path that is not an XFS filesystem with  *)
(* project quotas.  It has no fields: a call returns at once, and nothing  *)
(* but what the caller was given changes.  The callers are told apart as   *)
(* those of xfsQuotaer are.                                                *)
(***************************************************************************)
\* newDummyQuotaer() returns &dummyQuotaer{}; a path where a projects file
\* was made is an XFS path and gets no dummyQuotaer
newDummyQuotaer ==
    /\ svc = "down"
    /\ ~haveFile
    /\ svc' = "dummy"
    /\ startup' = NoStartup
    /\ UNCHANGED <<disk, exists, quota, ids, restore, pc, arg, ret, cmds, pre,
                   dirty, issued, budget>>
    /\ UNCHANGED locks

\* a method of dummyQuotaer is called by goroutine p and returns r
dummyQuotaer_Call(p, r) ==
    /\ svc = "dummy"
    /\ pc[p] = "idle"
    /\ \A q \in Procs : q < p => pc[q] # "idle"
    /\ ret' = [ret EXCEPT ![p] = r]
    /\ UNCHANGED <<disk, exists, quota, svc, startup, ids, restore, pc, arg,
                   cmds, pre, dirty, issued, budget>>
    /\ UNCHANGED locks

\* return "", 0, nil
dummyQuotaer_AddProject(p) ==
    dummyQuotaer_Call(p, [NoRet EXCEPT !.op = "dummyQuotaer.AddProject"])

\* return nil
dummyQuotaer_RemoveProject(p) ==
    dummyQuotaer_Call(p, [NoRet EXCEPT !.op = "dummyQuotaer.RemoveProject"])

\* return nil
dummyQuotaer_SetQuota(p) ==
    dummyQuotaer_Call(p, [NoRet EXCEPT !.op = "dummyQuotaer.SetQuota"])

\* return nil
dummyQuotaer_UnsetQuota(p) ==
    dummyQuotaer_Call(p, [NoRet EXCEPT !.op = "dummyQuotaer.UnsetQuota"])

(***************************************************************************)
(* The environment.                                                        *)
(***************************************************************************)
\* A directory is deleted from the host.  Directories are not created again,
\* and the program looks at a directory only when restoreQuotas comes to a
\* match that names it: whenever the directory was deleted, the program sees
\* what it sees when it is deleted just before that.
RmDir(d) ==
    /\ svc = "restoring"
    /\ Len(restored) < Len(matches)
    /\ Current.directory = d
    /\ d \in exists
    /\ exists' = exists \ {d}
    /\ UNCHANGED <<disk, quota, svc, startup, ids, restore, pc, arg, ret, cmds, pre,
                   dirty, issued, budget>>
    /\ UNCHANGED locks

\* the process dies: what is in memory is lost, the file, the live
\* filesystem and what the callers were given stay
Crash ==
    /\ svc # "down"
    /\ Fault
    /\ svc' = "down"
    /\ startup' = NoStartup
    /\ ids' = {}
    /\ matches' = <<>> /\ restored' = <<>>
    /\ pc' = [p \in Procs |-> "idle"]
    /\ arg' = [p \in Procs |-> NoArg]
    /\ ret' = [p \in Procs |-> NoRet]
    /\ cmds' = [p \in 0..NumProcs |-> <<>>]
    /\ pre' = [p \in Procs |-> NoPre]
    /\ dirty' = [p \in Procs |-> FALSE]
    /\ UNCHANGED <<disk, exists, quota, issued, calls>>
    /\ UNCHANGED locks

Next ==
    \/ newXfsQuotaer
    \/ restoreQuotas_Read
    \/ restoreQuotas_Stale
    \/ restoreQuotas_SetQuota
    \/ restoreQuotas_Return
    \/ \E p \in Procs, d \in Dirs, b \in Limits : AddProject(p, d, b)
    \/ \E p \in Procs : AddProject_addToFile(p)
    \/ \E p \in Procs : AddProject_deleteId(p)
    \/ \E p \in Procs : AddProject_exec(p)
    \/ \E p \in Procs : AddProject_undo_deleteId(p)
    \/ \E p \in Procs : AddProject_undo_removeFromFile(p)
    \/ \E p \in Procs, tok \in issued : RemoveProject(p, tok)
    \/ \E p \in Procs : RemoveProject_removeFromFile(p)
    \/ \E p \in Procs, i \in Ids, d \in Dirs, b \in Limits : SetQuota(p, i, d, b)
    \/ \E p \in Procs : SetQuota_exec(p)
    \/ \E p \in Procs : UnsetQuota(p)
    \/ newDummyQuotaer
    \/ \E p \in Procs : dummyQuotaer_AddProject(p)
    \/ \E p \in Procs : dummyQuotaer_RemoveProject(p)
    \/ \E p \in Procs : dummyQuotaer_SetQuota(p)
    \/ \E p \in Procs : dummyQuotaer_UnsetQuota(p)
    \/ \E d \in Dirs : RmDir(d)
    \/ Crash

Spec == Init /\ [][Next]_vars

(***************************************************************************)
(* AddProject calls alone, all of them succeeding, on a service started    *)
(* where no projects file exists.                                          *)
(***************************************************************************)
AddProject_addToFileOk(p) == AddProject_addToFile(p) /\ NoFault
AddProject_execOk(p) == AddProject_exec(p) /\ NoFault

NextAdd ==
    \/ newXfsQuotaer /\ NoFault
    \/ restoreQuotas_Read /\ NoFault
    \/ restoreQuotas_Return
    \/ \E p \in Procs, d \in Dirs, b \in Limits : AddProject(p, d, b)
    \/ \E p \in Procs : AddProject_addToFileOk(p)
    \/ \E p \in Procs : AddProject_execOk(p)

SpecAdd == Init /\ [][NextAdd]_vars

(***************************************************************************)
(* What the properties below speak of.                                     *)
(***************************************************************************)
\* the goroutines with a call in progress
Busy == {p \in Procs : pc[p] # "idle"}

\* no public call has been made since the process started: the state is as
\* newXfsQuotaer and restoreQuotas made it
Fresh == \A p \in Procs : pc[p] = "idle" /\ ret[p] = NoRet

\* the project id of the i-th match of restoreQuotas
TagAt(i) == ProjectIdOf(matches[i])

\* the matches restoreQuotas has dealt with, and those it called SetQuota for
Done == 1..Len(restored)
StaleKinds == {"stale", "stale, not removed"}
LimitKinds == {"limit", "limit failed"}

\* the id AddProject returned to goroutine p, or holds for it
Returned(p) == ret[p].op = "AddProject" /\ ret[p].err = "nil"
Failed(p) == ret[p].op = "AddProject" /\ ret[p].err # "nil"

(***************************************************************************)
(* C1: AddProject calls running concurrently, all succeeding, never hold   *)
(* or return the same project id, and when all N of them have returned     *)
(* projectIds has N members more than the none it had before.              *)
(***************************************************************************)
C1_DistinctTags ==
    /\ \A p, q \in Busy : arg[p].id = arg[q].id => p = q
    /\ \A p \in Busy : \A t \in issued : t.id # arg[p].id
    /\ \A t, u \in issued : t.id = u.id => t = u
    /\ Busy = {} /\ svc = "running" =>
          /\ Cardinality(ids) = calls
          /\ Cardinality(issued) = calls
          /\ ids = {t.id : t \in issued}

\* every goroutine is in AddProject at once, and the last call allowed has
\* been made
C1_Witness ==
    /\ Busy = Procs
    /\ calls = MaxCalls

(***************************************************************************)
(* C2: AddProject is all or nothing: when it returns an error, and no      *)
(* other goroutine has changed projectIds or the file meanwhile, both are  *)
(* as they were before the call.                                           *)
(***************************************************************************)
C2_AllOrNothing ==
    \A p \in Procs :
        Failed(p) /\ ~dirty[p] => ids = pre[p].ids /\ file = pre[p].file

(***************************************************************************)
(* C3: a tag is not reused while a record still refers to it: the file     *)
(* never holds two blocks with the same project id, and AddProject never   *)
(* returns an id that another block of the file carries.                   *)
(***************************************************************************)
C3_NoTagReuse ==
    LET ms == FindAllRecords(file, 1)
    IN  /\ \A i, j \in 1..Len(ms) : ProjectIdOf(ms[i]) = ProjectIdOf(ms[j]) => i = j
        /\ \A p \in Procs : Returned(p) =>
              \A i \in 1..Len(ms) :
                  ProjectIdOf(ms[i]) = ret[p].id => ms[i].whole = ret[p].block

(***************************************************************************)
(* C4: projectIds is a subset of the ids of the records in the file after  *)
(* an operation, and equal to it when no operation is in progress; stated  *)
(* for the states where none is in progress, where both say the same.      *)
(***************************************************************************)
C4_IdsAreFileIds ==
    svc = "running" /\ Busy = {} => ids = FileIds(file)

(***************************************************************************)
(* C5: AddProject followed by RemoveProject of what it returned, both      *)
(* succeeding and no other goroutine changing the file meanwhile, leaves   *)
(* the file as it was before the AddProject.                               *)
(***************************************************************************)
C5_AddRemoveRestoresFile ==
    \A p \in Procs :
        /\ ret[p].op = "RemoveProject" /\ ret[p].err = "nil"
        /\ ret[p].note = "follows"
        /\ ~dirty[p]
        => file = pre[p].file

RECURSIVE ExpectedCmds(_)
\* the limit commands for the first n matches
ExpectedCmds(n) ==
    IF n = 0 THEN <<>>
    ELSE IF restored[n] \in LimitKinds
         THEN Append(ExpectedCmds(n - 1), LimitCmd(matches[n].bhard, TagAt(n)))
         ELSE ExpectedCmds(n - 1)

C7_RestoreLimitsOnce ==
    Fresh /\ svc = "running" =>
        /\ cmds[0] = ExpectedCmds(Len(restored))
        /\ \A i \in Done :
              matches[i].directory \in exists =>
                  /\ restored[i] = "limit"
                  /\ TagAt(i) \in ids
                  /\ Contains(file, matches[i].whole)

(***************************************************************************)
(* C8: when the limit command fails for a record, restoreQuotas stops at   *)
(* that record, and newXfsQuotaer returns the error and no instance.       *)
(***************************************************************************)
C8_LimitFailureAborts ==
    \A i \in Done :
        restored[i] = "limit failed" =>
            /\ i = Len(restored)
            /\ svc = "down" /\ startup.err
            /\ cmds[0] = ExpectedCmds(i)

\* the limit command has failed for a record that is not the last
C8_Witness ==
    \E i \in Done : restored[i] = "limit failed" /\ i < Len(matches)

(***************************************************************************)
(* C9: SetQuota with an id that is not in projectIds returns the state     *)
(* error, runs no command and changes nothing.                             *)
(***************************************************************************)
C9_Step ==
    \A p \in Procs :
        ret'[p] # ret[p] /\ ret'[p].op = "SetQuota" /\ ret'[p].note = "unallocated"
        => /\ ret'[p].err = "state"
           /\ cmds'[p] = <<>>
           /\ UNCHANGED <<disk, quota, ids>>

C9_SetQuotaUnallocated == [][C9_Step]_vars

\* SetQuota has returned the state error to a caller while the id is in a
\* record of the file
C9_Witness ==
    \E p \in Procs :
        /\ ret[p].op = "SetQuota" /\ ret[p].err = "state"
        /\ ret[p].id \in FileIds(file)

(***************************************************************************)
(* C10: when getExistingIds has read the file, every id of the file is in  *)
(* projectIds when restoreQuotas starts on the records, and while it runs  *)
(* the id of a record whose directory exists is in projectIds.             *)
(***************************************************************************)
C10_TagsStayRegistered ==
    svc = "restoring" /\ ~startup.logged =>
        /\ restored = <<>> => FileIds(file) \subseteq ids
        /\ \A i \in 1..Len(matches) :
              matches[i].directory \in exists => TagAt(i) \in ids

(***************************************************************************)
(* C11: the file is always a sequence of whole blocks, each a newline,     *)
(* "<id>:<directory>:<bhard>" and a newline, and a step that removes text  *)
(* from the file removes one block and leaves every other block in place.  *)
(***************************************************************************)
RECURSIVE Concat(_, _)
\* the text of the first n records of ms, one after the other
Concat(ms, n) == IF n = 0 THEN <<>> ELSE Concat(ms, n - 1) \o ms[n].whole

\* text is made of whole blocks, as AddProject builds them, and nothing else
WholeBlocks(text) ==
    LET ms == FindAllRecords(text, 1)
    IN  /\ text = Concat(ms, Len(ms))
        /\ \A i \in 1..Len(ms) :
              /\ ParseUint(ms[i].digits).ok
              /\ ms[i].whole = Block(ProjectIdOf(ms[i]), ms[i].directory, ms[i].bhard)

C11_Step ==
    /\ WholeBlocks(file')
    /\ Len(file') < Len(file) =>
          Len(FindAllRecords(file', 1)) = Len(FindAllRecords(file, 1)) - 1

C11_BlocksStayWhole == [][C11_Step]_vars

(***************************************************************************)
(* A block built as AddProject builds it and parsed as restoreQuotas       *)
(* parses it: the directory is any string of up to MaxDirLen characters    *)
(* without a newline, colons included, the id any uint16 and the limit a   *)
(* decimal number.                                                         *)
(***************************************************************************)
PathChars == {"/", "a", ":"}
AnyDirs == UNION {[1..n -> PathChars] : n \in 0..MaxDirLen}
AnyIds == {0, 7, 10, 65535}
AnyLimits == {<<"5">>, <<"1", "0">>}

InitRoundTrip ==
    /\ haveFile = TRUE
    /\ file = <<>>
    /\ exists = Dirs
    /\ quota = [proj |-> [d \in Dirs |-> 0], lim |-> [i \in Ids |-> <<>>]]
    /\ svc = "running"
    /\ startup = NoStartup
    /\ ids = {}
    /\ matches = <<>>
    /\ restored = <<>>
    /\ pc = [p \in Procs |-> IF p = 1 THEN "block" ELSE "idle"]
    /\ \E directory \in AnyDirs, bhard \in AnyLimits, projectId \in AnyIds :
          arg = [p \in Procs |->
                    IF p = 1
                    THEN [NoArg EXCEPT !.directory = directory, !.bhard = bhard,
                                       !.id = projectId]
                    ELSE NoArg]
    /\ ret = [p \in Procs |-> NoRet]
    /\ cmds = [p \in 0..NumProcs |-> <<>>]
    /\ pre = [p \in Procs |-> NoPre]
    /\ dirty = [p \in Procs |-> FALSE]
    /\ issued = {}
    /\ calls = 0
    /\ faults = 0
    /\ mapMutex = 0
    /\ fileMutex = 0

\* AddProject: projectIdStr and block are built, and the block is written to
\* the empty file
RoundTrip_Block ==
    /\ pc[1] = "block"
    /\ arg' = [arg EXCEPT ![1].block = Block(arg[1].id, arg[1].directory, arg[1].bhard)]
    /\ file' = addToFile(file, arg'[1].block)
    /\ pc' = [pc EXCEPT ![1] = "parse"]
    /\ UNCHANGED <<haveFile, exists, quota, svc, startup, ids, restore, ret,
                   cmds, pre, dirty, issued, budget>>
    /\ UNCHANGED locks

\* restoreQuotas: the file is matched against the record pattern
RoundTrip_Parse ==
    /\ pc[1] = "parse"
    /\ matches' = FindAllRecords(file, 1)
    /\ pc' = [pc EXCEPT ![1] = "parsed"]
    /\ UNCHANGED <<disk, exists, quota, svc, startup, ids, restored, arg, ret,
                   cmds, pre, dirty, issued, budget>>
    /\ UNCHANGED locks

NextRoundTrip == RoundTrip_Block \/ RoundTrip_Parse

SpecRoundTrip == InitRoundTrip /\ [][NextRoundTrip]_vars

\* the one record parsed is the triple the block was built from
ParsedBack ==
    /\ Len(matches) = 1
    /\ matches[1].whole = arg[1].block
    /\ ParseUint(matches[1].digits) = [val |-> arg[1].id, ok |-> TRUE]
    /\ matches[1].directory = arg[1].directory
    /\ matches[1].bhard = arg[1].bhard

(***************************************************************************)
(* C12: a block built from a non-empty directory without newlines, an id   *)
(* and a decimal limit is parsed back by the record pattern into the same  *)
(* id, directory and limit.                                                *)
(***************************************************************************)
C12_RoundTrip ==
    pc[1] = "parsed" /\ arg[1].directory # <<>> => ParsedBack

\* a block whose directory holds colons has been parsed
C12_Witness ==
    /\ pc[1] = "parsed"
    /\ \E i \in 1..Len(arg[1].directory) : arg[1].directory[i] = ":"
    /\ arg[1].id = 65535

\* C12 as stated: for any directory without newlines, the empty one included
C12_Original == pc[1] = "parsed" => ParsedBack

(***************************************************************************)
(* The calls with the mutexes in view.  Each helper locks the mutex it is  *)
(* given, does its work and unlocks: taking the mutex is one step, the     *)
(* work and the unlock another.  A goroutine at a "wait" label is blocked  *)
(* in Lock.  The service has been started on a new projects file.          *)
(***************************************************************************)
WaitMap == {"wait_deleteId", "wait_undo_deleteId"}
WaitFile == {"wait_addToFile", "wait_undo_removeFromFile", "wait_removeFromFile"}

\* where a goroutine is once Lock has returned
Locked(l) ==
    CASE l = "wait_deleteId" -> "deleteId"
      [] l = "wait_undo_deleteId" -> "undo_deleteId"
      [] l = "wait_addToFile" -> "addToFile"
      [] l = "wait_undo_removeFromFile" -> "undo_removeFromFile"
      [] l = "wait_removeFromFile" -> "removeFromFile"

\* mutex.Lock() in generateId and deleteId
mapMutex_Lock(p) ==
    /\ pc[p] \in WaitMap
    /\ mapMutex = 0
    /\ mapMutex' = p
    /\ Goto(p, Locked(pc[p]))
    /\ UNCHANGED <<disk, exists, quota, svc, startup, ids, restore, arg, ret,
                   cmds, pre, dirty, issued, budget, fileMutex>>

\* mutex.Lock() in addToFile and removeFromFile
fileMutex_Lock(p) ==
    /\ pc[p] \in WaitFile
    /\ fileMutex = 0
    /\ fileMutex' = p
    /\ Goto(p, Locked(pc[p]))
    /\ arg' = [arg EXCEPT ![p].note = "took fileMutex"]
    /\ UNCHANGED <<disk, exists, quota, svc, startup, ids, restore, ret,
                   cmds, pre, dirty, issued, budget, mapMutex>>

\* a caller calls q.AddProject(directory, bhard); generateId locks mapMutex
Locks_AddProject(p, directory, bhard) ==
    /\ Idle(p)
    /\ calls < MaxCalls
    /\ calls' = calls + 1
    /\ mapMutex = 0
    /\ mapMutex' = p
    /\ Goto(p, "generateId")
    /\ arg' = [arg EXCEPT ![p] = [NoArg EXCEPT !.directory = directory,
                                               !.bhard = bhard]]
    /\ ret' = [ret EXCEPT ![p] = NoRet]
    /\ cmds' = [cmds EXCEPT ![p] = <<>>]
    /\ UNCHANGED <<disk, exists, quota, svc, startup, ids, restore, pre, dirty,
                   issued, faults, fileMutex>>

\* generateId puts a free id in the map and unlocks; the block is built
Locks_generateId(p) ==
    /\ pc[p] = "generateId"
    /\ mapMutex = p
    /\ \E projectId \in generateId(ids) :
          /\ ids' = ids \cup {projectId}
          /\ arg' = [arg EXCEPT ![p].id = projectId,
                                ![p].block = Block(projectId, arg[p].directory,
                                                   arg[p].bhard)]
    /\ mapMutex' = 0
    /\ Goto(p, "wait_addToFile")
    /\ UNCHANGED <<disk, exists, quota, svc, startup, restore, ret, cmds, pre,
                   dirty, issued, budget, fileMutex>>

\* Locks_addToFile with a slip: the mutex is not unlocked when the write fails
Locks_addToFile_KeepsLock(p) ==
    /\ pc[p] = "addToFile"
    /\ fileMutex = p
    /\ \/ /\ NoFault
          /\ file' = addToFile(file, arg[p].block)
          /\ fileMutex' = 0
          /\ Goto(p, "exec")
       \/ /\ Fault
          /\ UNCHANGED <<file, fileMutex>>
          /\ Goto(p, "wait_deleteId")
    /\ UNCHANGED <<haveFile, exists, quota, svc, startup, ids, restore, arg,
                   ret, cmds, pre, dirty, issued, calls, mapMutex>>

\* addToFile appends the block, or fails, and unlocks
Locks_addToFile(p) ==
    /\ pc[p] = "addToFile"
    /\ fileMutex = p
    /\ \/ /\ NoFault
          /\ file' = addToFile(file, arg[p].block)
          /\ Goto(p, "exec")
       \/ /\ Fault
          /\ UNCHANGED file
          /\ Goto(p, "wait_deleteId")
    /\ fileMutex' = 0
    /\ UNCHANGED <<haveFile, exists, quota, svc, startup, ids, restore, arg,
                   ret, cmds, pre, dirty, issued, calls, mapMutex>>

\* addToFile failed: deleteId takes the id out of the map and unlocks, and
\* the error is returned
Locks_deleteId(p) ==
    /\ pc[p] = "deleteId"
    /\ mapMutex = p
    /\ ids' = deleteId(ids, arg[p].id)
    /\ mapMutex' = 0
    /\ Return(p, [NoRet EXCEPT !.op = "AddProject", !.err = "persistence"])
    /\ UNCHANGED <<disk, exists, quota, svc, startup, restore, cmds, pre,
                   dirty, issued, budget, fileMutex>>

\* the xfs_quota project command is run, no mutex held
Locks_exec(p) ==
    /\ pc[p] = "exec"
    /\ LET cmd == ProjectCmd(arg[p].directory, arg[p].id)
       IN  /\ cmds' = [cmds EXCEPT ![p] = Append(@, cmd)]
           /\ \/ /\ NoFault
                 /\ quota' = Apply(quota, cmd)
                 /\ issued' = issued \cup {[block |-> arg[p].block, id |-> arg[p].id]}
                 /\ Return(p, [NoRet EXCEPT !.op = "AddProject",
                                            !.block = arg[p].block,
                                            !.id = arg[p].id])
              \/ /\ Fault
                 /\ UNCHANGED <<quota, issued, arg, ret>>
                 /\ Goto(p, "wait_undo_deleteId")
    /\ UNCHANGED <<disk, exists, svc, startup, ids, restore, pre, dirty,
                   calls, locks>>

\* xfs_quota failed: deleteId
Locks_undo_deleteId(p) ==
    /\ pc[p] = "undo_deleteId"
    /\ mapMutex = p
    /\ ids' = deleteId(ids, arg[p].id)
    /\ mapMutex' = 0
    /\ Goto(p, "wait_undo_removeFromFile")
    /\ UNCHANGED <<disk, exists, quota, svc, startup, restore, arg, ret, cmds,
                   pre, dirty, issued, budget, fileMutex>>

\* then removeFromFile, its error dropped
Locks_undo_removeFromFile(p) ==
    /\ pc[p] = "undo_removeFromFile"
    /\ fileMutex = p
    /\ \/ /\ NoFault
          /\ file' = removeFromFile(file, arg[p].block)
       \/ /\ Fault
          /\ UNCHANGED file
    /\ fileMutex' = 0
    /\ Return(p, [NoRet EXCEPT !.op = "AddProject", !.err = "enforcement"])
    /\ UNCHANGED <<haveFile, exists, quota, svc, startup, ids, restore, cmds,
                   pre, dirty, issued, calls, mapMutex>>

\* a caller calls q.RemoveProject(block, projectId); deleteId locks mapMutex
Locks_RemoveProject(p, tok) ==
    /\ Idle(p)
    /\ calls < MaxCalls
    /\ tok \in issued
    /\ issued' = issued \ {tok}
    /\ calls' = calls + 1
    /\ mapMutex = 0
    /\ mapMutex' = p
    /\ Goto(p, "rm_deleteId")
    /\ arg' = [arg EXCEPT ![p] = [NoArg EXCEPT !.block = tok.block, !.id = tok.id]]
    /\ ret' = [ret EXCEPT ![p] = NoRet]
    /\ cmds' = [cmds EXCEPT ![p] = <<>>]
    /\ UNCHANGED <<disk, exists, quota, svc, startup, ids, restore, pre, dirty,
                   faults, fileMutex>>

\* deleteId takes the id out of the map and unlocks
Locks_rm_deleteId(p) ==
    /\ pc[p] = "rm_deleteId"
    /\ mapMutex = p
    /\ ids' = deleteId(ids, arg[p].id)
    /\ mapMutex' = 0
    /\ Goto(p, "wait_removeFromFile")
    /\ UNCHANGED <<disk, exists, quota, svc, startup, restore, arg, ret, cmds,
                   pre, dirty, issued, budget, fileMutex>>

\* return removeFromFile(q.fileMutex, q.projectsFile, block)
Locks_removeFromFile(p) ==
    /\ pc[p] = "removeFromFile"
    /\ fileMutex = p
    /\ \/ /\ NoFault
          /\ file' = removeFromFile(file, arg[p].block)
          /\ Return(p, [NoRet EXCEPT !.op = "RemoveProject", !.block = arg[p].block,
                                     !.id = arg[p].id])
       \/ /\ Fault
          /\ UNCHANGED file
          /\ Return(p, [NoRet EXCEPT !.op = "RemoveProject", !.err = "persistence",
                                     !.block = arg[p].block, !.id = arg[p].id])
    /\ fileMutex' = 0
    /\ UNCHANGED <<haveFile, exists, quota, svc, startup, ids, restore, cmds,
                   pre, dirty, issued, calls, mapMutex>>

\* a caller calls q.SetQuota(projectId, directory, bhard):
\* if !q.projectIds[projectId] is evaluated, and no mutex is taken for it
Locks_SetQuota(p, projectId, bhard) ==
    /\ Idle(p)
    /\ calls < MaxCalls
    /\ calls' = calls + 1
    /\ IF projectId \in ids
       THEN /\ Goto(p, "set_exec")
            /\ arg' = [arg EXCEPT ![p] = [NoArg EXCEPT !.id = projectId,
                                                      !.bhard = bhard]]
            /\ ret' = [ret EXCEPT ![p] = NoRet]
       ELSE Return(p, [NoRet EXCEPT !.op = "SetQuota", !.err = "state",
                                    !.id = projectId])
    /\ cmds' = [cmds EXCEPT ![p] = <<>>]
    /\ UNCHANGED <<disk, exists, quota, svc, startup, ids, restore, pre, dirty,
                   issued, faults, locks>>

NextLocks ==
    \/ newXfsQuotaer /\ NoFault
    \/ restoreQuotas_Read /\ NoFault
    \/ restoreQuotas_Return
    \/ \E p \in Procs, d \in Dirs, b \in Limits : Locks_AddProject(p, d, b)
    \/ \E p \in Procs : Locks_generateId(p)
    \/ \E p \in Procs : Locks_addToFile(p)
    \/ \E p \in Procs : Locks_deleteId(p)
    \/ \E p \in Procs : Locks_exec(p)
    \/ \E p \in Procs : Locks_undo_deleteId(p)
    \/ \E p \in Procs : Locks_undo_removeFromFile(p)
    \/ \E p \in Procs, tok \in issued : Locks_RemoveProject(p, tok)
    \/ \E p \in Procs : Locks_rm_deleteId(p)
    \/ \E p \in Procs : Locks_removeFromFile(p)
    \/ \E p \in Procs, i \in Ids, b \in Limits : Locks_SetQuota(p, i, b)
    \/ \E p \in Procs : SetQuota_exec(p)
    \/ \E p \in Procs : mapMutex_Lock(p)
    \/ \E p \in Procs : fileMutex_Lock(p)

SpecLocks == Init /\ [][NextLocks]_vars

\* the step is goroutine p's evaluation of q.projectIds[projectId] in SetQuota
ReadsIds(p) ==
    /\ Idle(p)
    /\ calls' = calls + 1
    /\ \/ pc'[p] = "set_exec"
       \/ pc' = pc /\ ret'[p].op = "SetQuota"

\* the step is a write of projectIds by goroutine p
WritesIds(p) == ids' # ids /\ pc'[p] # pc[p]

(***************************************************************************)
(* C13: a goroutine that reads or writes projectIds holds mapMutex, so     *)
(* that no goroutine reads it while another is inside generateId or        *)
(* deleteId.                                                               *)
(***************************************************************************)
C13_Step ==
    \A p \in Procs : ReadsIds(p) \/ WritesIds(p) => mapMutex = p

C13_AccessUnderLock == [][C13_Step]_vars

\* a step of a goroutine that is inside a call
StepInCall ==
    \E p \in Procs :
        \/ Locks_generateId(p)
        \/ Locks_addToFile(p)
        \/ Locks_deleteId(p)
        \/ Locks_exec(p)
        \/ Locks_undo_deleteId(p)
        \/ Locks_undo_removeFromFile(p)
        \/ Locks_rm_deleteId(p)
        \/ Locks_removeFromFile(p)
        \/ SetQuota_exec(p)
        \/ mapMutex_Lock(p)
        \/ fileMutex_Lock(p)

(***************************************************************************)
(* C14: no goroutine holds both mutexes, none is blocked in Lock or back   *)
(* from its call with a mutex held, and as long as a call is in progress   *)
(* some goroutine inside a call can take a step: AddProject, RemoveProject *)
(* and SetQuota never deadlock.                                            *)
(***************************************************************************)
C14_NoDeadlock ==
    /\ \A p \in Procs :
          /\ ~(mapMutex = p /\ fileMutex = p)
          /\ pc[p] \in WaitMap \cup WaitFile \cup {"idle", "exec", "set_exec"} =>
                mapMutex # p /\ fileMutex # p
    /\ Busy # {} => ENABLED StepInCall

\* a goroutine is blocked in fileMutex.Lock() while the other holds fileMutex
\* and a third call has been through both mutexes
C14_Witness ==
    /\ \E p, q \in Procs : pc[p] \in WaitFile /\ fileMutex = q /\ q # p
    /\ calls = MaxCalls

\* C14 as stated: in a call, mapMutex is not taken after fileMutex
C14_Original ==
    [][\A p \in Procs :
          mapMutex' = p /\ mapMutex # p => arg[p].note # "took fileMutex"]_vars

(***************************************************************************)
(* C15: RemoveProject first takes the id out of projectIds, with the file  *)
(* as it was, and then removes the block from the file; it returns nil     *)
(* when removeFromFile has removed the block and the error of              *)
(* removeFromFile when it has not; it runs no xfs_quota command and        *)
(* neither of its steps changes the quota state of the filesystem.         *)
(***************************************************************************)
C15_Step ==
    \A p \in Procs :
        /\ pc[p] = "idle" /\ pc'[p] = "rm_removeFromFile"
            => /\ ids' = ids \ {arg'[p].id}
               /\ cmds'[p] = <<>>
               /\ UNCHANGED <<disk, quota>>
        /\ pc[p] = "rm_removeFromFile" /\ ret'[p].op = "RemoveProject"
            => /\ cmds'[p] = <<>>
               /\ UNCHANGED <<haveFile, quota, ids>>
               /\ \/ /\ ret'[p].err = "nil"
                     /\ file' = removeFromFile(file, arg[p].block)
                  \/ /\ ret'[p].err = "persistence"
                     /\ file' = file

C15_RemoveProjectFrame == [][C15_Step]_vars

\* RemoveProject has returned nil: the block is gone from the file, the id
\* from projectIds, and the directory is still in the project on the
\* filesystem, with its limit
C15_Witness ==
    \E p \in Procs, d \in Dirs :
        /\ ret[p].op = "RemoveProject" /\ ret[p].err = "nil"
        /\ ret[p].id \notin ids
        /\ ~Contains(file, ret[p].block)
        /\ quota.proj[d] = ret[p].id
        /\ quota.lim[ret[p].id] # <<>>

(***************************************************************************)
(* C16: a call of UnsetQuota, of xfsQuotaer in whatever state it is and of *)
(* dummyQuotaer, returns nil, runs no xfs_quota command, and leaves        *)
(* projectIds, the projects file, the directories and the quota state of   *)
(* the filesystem as they were.                                            *)
(***************************************************************************)
C16_Step ==
    \A p \in Procs :
        \/ /\ Idle(p) /\ calls' = calls + 1
           /\ pc'[p] = "idle" /\ ret'[p].op = "UnsetQuota"
        \/ /\ svc = "dummy" /\ svc' = "dummy"
           /\ ret'[p].op = "dummyQuotaer.UnsetQuota"
        => /\ ret'[p].err = "nil"
           /\ cmds'[p] = <<>>
           /\ UNCHANGED <<disk, exists, quota, ids>>

C16_UnsetQuotaNoOp == [][C16_Step]_vars

\* UnsetQuota of xfsQuotaer has returned while a project with a limit is
\* recorded, allocated and enforced
C16_Witness ==
    \E p \in Procs, d \in Dirs :
        /\ ret[p].op = "UnsetQuota"
        /\ quota.proj[d] \in ids
        /\ quota.lim[quota.proj[d]] # <<>>
        /\ quota.proj[d] \in FileIds(file)

(***************************************************************************)
(* C17: a record whose directory is missing does not make newXfsQuotaer    *)
(* fail.  When getExistingIds has read the file and restoreQuotas has come *)
(* to the records, newXfsQuotaer fails only on a record whose directory    *)
(* exists and whose limit command has failed: handling the records with    *)
(* missing directories before it has left its id in projectIds.            *)
(***************************************************************************)
C17_StaleNeverFatal ==
    ~startup.logged /\ startup.err /\ restored # <<>> =>
        restored[Len(restored)] = "limit failed"

(***************************************************************************)
(* C18: in a call of AddProject the id is put in projectIds first, with    *)
(* the file as it is, then the block is appended to the file, then the     *)
(* project command is run, for the id and the directory of the call, and   *)
(* it is run only when addToFile has appended the block.  In a call of     *)
(* SetQuota, from a caller or from restoreQuotas, the limit command is run *)
(* only when the id was found in projectIds.                               *)
(***************************************************************************)
\* goroutine p runs a command of the given kind in this step
Runs(p, kind) ==
    /\ Len(cmds'[p]) = Len(cmds[p]) + 1
    /\ cmds'[p][Len(cmds'[p])].op = kind

\* goroutine p comes to position l of its call in this step
Reaches(p, l) == pc'[p] = l /\ pc[p] # l

C18_Step ==
    /\ \A p \in Procs :
          /\ Reaches(p, "add_addToFile")
              => /\ pc[p] = "idle"
                 /\ arg'[p].id \notin ids /\ ids' = ids \cup {arg'[p].id}
                 /\ cmds'[p] = <<>>
                 /\ UNCHANGED <<disk, quota>>
          /\ Reaches(p, "add_exec")
              => /\ pc[p] = "add_addToFile"
                 /\ file' = file \o arg[p].block
                 /\ arg'[p] = arg[p] /\ cmds'[p] = <<>>
                 /\ UNCHANGED <<quota, ids>>
          /\ Runs(p, "project")
              => /\ pc[p] = "add_exec"
                 /\ cmds'[p] = <<ProjectCmd(arg[p].directory, arg[p].id)>>
          /\ Reaches(p, "set_exec")
              => /\ pc[p] = "idle"
                 /\ arg'[p].id \in ids
                 /\ cmds'[p] = <<>>
                 /\ UNCHANGED <<disk, quota, ids>>
          /\ Runs(p, "limit")
              => /\ pc[p] = "set_exec"
                 /\ cmds'[p] = <<LimitCmd(arg[p].bhard, arg[p].id)>>
    /\ Runs(0, "limit")
          => /\ svc = "restoring"
             /\ TagAt(Len(restored) + 1) \in ids
    /\ ~Runs(0, "project")

C18_StepOrder == [][C18_Step]_vars

\* AddProject has run its project command and returned to one goroutine,
\* SetQuota has run its limit command and returned to the other
C18_Witness ==
    \E p, q \in Procs :
        /\ Returned(p) /\ Len(cmds[p]) = 1
        /\ ret[q].op = "SetQuota" /\ ret[q].err = "nil" /\ Len(cmds[q]) = 1

(***************************************************************************)
(* C19: a record for which restoreQuotas has run the limit command with    *)
(* success is the record of a directory for which a project command has    *)
(* succeeded: when the process died inside AddProject, restoreQuotas does  *)
(* not limit the project of a directory that is in no project.            *)
(***************************************************************************)
C19_LimitedWasAssociated ==
    \A i \in Done :
        restored[i] = "limit" => quota.proj[matches[i].directory] # 0

(***************************************************************************)
(* C20: when a goroutine inside SetQuota runs the limit command while      *)
(* another goroutine is inside RemoveProject for the same id, the id is in *)
(* projectIds and a record with the id is in the file.                     *)
(***************************************************************************)
C20_Step ==
    \A p, q \in Procs :
        /\ Runs(p, "limit")
        /\ pc[q] = "rm_removeFromFile" /\ arg[q].id = arg[p].id
        => arg[p].id \in ids /\ arg[p].id \in FileIds(file)

C20_LimitWhileAllocated == [][C20_Step]_vars

====
